---- MODULE Spec2Model ----
(***************************************************************************)
(* Workspace symbol index (SymbolIndex, src/StringHelpers.ahk lines 46-462)*)
(* and diagnostic aggregator (src/src/alpha/DiagnosticAggregator.ts).      *)
(*                                                                         *)
(* A JavaScript Map is modelled as a sequence of [k, v] entries in         *)
(* insertion order, because getModuleByName, findModuleExportingSymbol and *)
(* getDiagnostics iterate their maps in that order.  symbolsByName and     *)
(* wildcardImportsByDocument are only ever read by key and the code never  *)
(* stores an empty list under a key of either (indexSymbols pushes right   *)
(* after creating the list, removeFile and indexWildcardImports delete the *)
(* key instead of storing []), so they are functions whose value <<>>      *)
(* stands for "key absent".                                                *)
(*                                                                         *)
(* ModuleInfo.lastModified (Date.now()) and ModuleInfo.indexed (always     *)
(* true) are not carried: no operation of the index reads them.            *)
(***************************************************************************)
EXTENDS Integers, Sequences, FiniteSets, TLC

VARIABLES
    modules,                    \* Map<fsPath, ModuleInfo>
    symbolsByModule,            \* Map<moduleName, SymbolInfo[]>
    symbolsByName,              \* Map<symbolName, SymbolInfo[]>
    wildcardImportsByDocument,  \* Map<fsPath, moduleName[]>
    indexingInProgress,         \* re-entrancy flag of indexWorkspace
    diagnostics,                \* Map<normalized uri, Map<source, Diagnostic[]>>
    last,                       \* the call that returned last, with its arguments
    pending,                    \* the indexFile runs that were called, in call order
    workspaceCall,              \* where the indexWorkspace call in flight is suspended
    delivered,                  \* per file, the change events the watcher delivered
    recordAsOf,                 \* per file, the change event its stored record's text is as of
    deleted                     \* per file, whether the watcher's last event for it is a delete

indexVars == <<modules, symbolsByModule, symbolsByName, wildcardImportsByDocument,
               indexingInProgress>>

\* the promises in flight and what the watcher did
asyncVars == <<pending, workspaceCall, delivered, recordAsOf, deleted>>

vars == <<modules, symbolsByModule, symbolsByName, wildcardImportsByDocument,
          indexingInProgress, diagnostics, last, pending, workspaceCall, delivered,
          recordAsOf, deleted>>

----------------------------------------------------------------------------
(* Bounds *)

\* longest list symbolsByName may hold under one name (indexSymbols only appends)
MaxSymbolsPerName == 2

\* most (file, source) lists the aggregator holds at a time
MaxTrackedLists == 2

\* most indexFile runs the watcher has in flight at a time
MaxPending == 2

\* most change events the watcher delivers for one file
MaxEvents == 2

\* most pieces of text that follow the import lines of a document
MaxBody == 3

\* largest absolute value of a raw line or column the interpreter reports
MaxCoordinate == 2

----------------------------------------------------------------------------
(* JavaScript Map, in insertion order *)

EmptyMap == <<>>

MapHas(m, k) == \E i \in 1..Len(m) : m[i].k = k

MapGet(m, k) == m[CHOOSE i \in 1..Len(m) : m[i].k = k].v

\* Map.prototype.set: an existing key keeps its place, a new key goes last
MapSet(m, k, v) ==
    IF MapHas(m, k)
    THEN [i \in 1..Len(m) |-> IF m[i].k = k THEN [k |-> k, v |-> v] ELSE m[i]]
    ELSE Append(m, [k |-> k, v |-> v])

MapDelete(m, k) == SelectSeq(m, LAMBDA e : e.k # k)

MapKeys(m) == {m[i].k : i \in 1..Len(m)}

----------------------------------------------------------------------------
(* Documents as the Declaration Scanner and the Module Resolver see them *)

\* the files of the workspace; LibraryFiles are the ones other files import
LibraryFiles == {"A.ahk", "B.ahk"}
Files == LibraryFiles \cup {"Main.ahk"}

SymbolNames == {"Sum", "Avg"}

Export(name, line) == [symbolName |-> name, symbolType |-> "function", range |-> line]

Import(moduleName, isWildcard, type) ==
    [moduleName |-> moduleName, isWildcard |-> isWildcard, type |-> type]

\* getModuleDirectiveName returns undefined when the text has no #Module line
NoDirective == ""

Doc(directive, exports, imports) ==
    [directive |-> directive, exports |-> exports, imports |-> imports]

\* openTextDocument rejects (file unreadable): the scan fails
Unreadable == [directive |-> NoDirective, exports |-> <<>>, imports |-> <<>>,
               unreadable |-> TRUE]

DocEmpty    == Doc(NoDirective, <<>>, <<>>)
DocSumAvg   == Doc(NoDirective, <<Export("Sum", 1), Export("Avg", 2)>>, <<>>)
DocWildA    == Doc(NoDirective, <<>>, <<Import("A", TRUE, "wildcard")>>)
DocWildB    == Doc(NoDirective, <<>>,
                   <<Import("B", TRUE, "wildcard"), Import("B", FALSE, "default")>>)
DocNamedB   == Doc("B", <<Export("Sum", 2)>>, <<>>)

Docs == {DocEmpty, DocSumAvg, DocWildA, DocNamedB}

IsUnreadable(doc) == "unreadable" \in DOMAIN doc

\* ModuleResolver.getModuleName: the file name without its extension
getModuleName(fsPath) == SubSeq(fsPath, 1, Len(fsPath) - 4)

----------------------------------------------------------------------------
(* SymbolIndex *)

NoModule == [none |-> TRUE]

getModuleByUri(uri) == IF MapHas(modules, uri) THEN MapGet(modules, uri) ELSE NoModule

\* NewModuleInfo as a merging update would build it: the declarations of the record
\* already stored for the file are kept in front of the freshly scanned ones
NewModuleInfoMerged(uri, doc) ==
    LET old == getModuleByUri(uri)
    IN  [uri     |-> uri,
         name    |-> IF doc.directive # NoDirective THEN doc.directive ELSE getModuleName(uri),
         exports |-> IF old = NoModule THEN doc.exports ELSE old.exports \o doc.exports,
         imports |-> IF old = NoModule THEN doc.imports ELSE old.imports \o doc.imports]

\* the ModuleInfo indexFile builds from the opened document
NewModuleInfo(uri, doc) ==
    [uri     |-> uri,
     name    |-> IF doc.directive # NoDirective THEN doc.directive ELSE getModuleName(uri),
     exports |-> doc.exports,
     imports |-> doc.imports]

SymbolOf(moduleInfo, exportStmt) ==
    [name       |-> exportStmt.symbolName,
     moduleName |-> moduleInfo.name,
     moduleUri  |-> moduleInfo.uri,
     type       |-> exportStmt.symbolType,
     location   |-> [uri |-> moduleInfo.uri, range |-> exportStmt.range]]

\* the local list `symbols` of indexSymbols
SymbolsOf(moduleInfo) ==
    [i \in 1..Len(moduleInfo.exports) |-> SymbolOf(moduleInfo, moduleInfo.exports[i])]

\* symbolsByName after the loop of indexSymbols: each symbol pushed under its name
PushSymbolsByName(byName, symbols) ==
    [n \in SymbolNames |-> byName[n] \o SelectSeq(symbols, LAMBDA s : s.name = n)]

\* the list indexWildcardImports collects
WildcardModules(imports) ==
    LET wild == SelectSeq(imports, LAMBDA imp : imp.isWildcard)
    IN  [i \in 1..Len(wild) |-> wild[i].moduleName]

\* symbolsByName after the loop of removeFile over the record's exports
FilterSymbolsByName(byName, moduleInfo, uri) ==
    [n \in SymbolNames |->
        IF \E i \in 1..Len(moduleInfo.exports) : moduleInfo.exports[i].symbolName = n
        THEN SelectSeq(byName[n], LAMBDA s : s.moduleUri # uri)
        ELSE byName[n]]

\* a record of the call that returned last.  The calls whose effect is stated below
\* as a property of the state they leave (indexFile, removeFile, setAlphaDiagnostics)
\* record the file and their other argument with it (for indexFile: what the scanner
\* yielded for the file); the other calls record their name.
Call(op, uri, arg) == [op |-> op, uri |-> uri, arg |-> arg]

\* indexFile(uri), doc being what openTextDocument and the parser yield for it
IndexFile(uri, doc) ==
    /\ IF IsUnreadable(doc)
       THEN \* caught at lines 178-180: logged, nothing else
            UNCHANGED <<modules, symbolsByModule, symbolsByName,
                        wildcardImportsByDocument>>
       ELSE LET moduleInfo == NewModuleInfo(uri, doc)
                symbols    == SymbolsOf(moduleInfo)
            IN  /\ modules' = MapSet(modules, uri, moduleInfo)
                /\ symbolsByName' = PushSymbolsByName(symbolsByName, symbols)
                /\ symbolsByModule' = MapSet(symbolsByModule, moduleInfo.name, symbols)
                /\ wildcardImportsByDocument' =
                       [wildcardImportsByDocument EXCEPT ![uri] = WildcardModules(doc.imports)]
                /\ \A n \in SymbolNames : Len(symbolsByName'[n]) <= MaxSymbolsPerName
    /\ last' = Call("indexFile", uri, doc)
    /\ UNCHANGED <<indexingInProgress, diagnostics>>

\* removeFile(uri)
RemoveFile(uri) ==
    /\ IF ~MapHas(modules, uri)
       THEN UNCHANGED <<modules, symbolsByModule, symbolsByName>>
       ELSE LET moduleInfo == MapGet(modules, uri)
            IN  /\ symbolsByModule' = MapDelete(symbolsByModule, moduleInfo.name)
                /\ symbolsByName' = FilterSymbolsByName(symbolsByName, moduleInfo, uri)
                /\ modules' = MapDelete(modules, uri)
    /\ last' = Call("removeFile", uri, DocEmpty)
    /\ UNCHANGED <<wildcardImportsByDocument, indexingInProgress, diagnostics>>

\* queries
getModuleExports(moduleName) ==
    IF MapHas(symbolsByModule, moduleName) THEN MapGet(symbolsByModule, moduleName) ELSE <<>>

getSymbolsByName(name) == symbolsByName[name]

\* getWildcardImportedSymbols that takes each wildcard-imported module once
getWildcardImportedSymbolsOnce(uri) ==
    LET wildcardModules == wildcardImportsByDocument[uri]
        RECURSIVE Concat(_)
        Concat(i) == IF i > Len(wildcardModules) THEN <<>>
                     ELSE IF \E j \in 1..(i - 1) : wildcardModules[j] = wildcardModules[i]
                          THEN Concat(i + 1)
                          ELSE getModuleExports(wildcardModules[i]) \o Concat(i + 1)
    IN  Concat(1)

getWildcardImportedSymbols(uri) ==
    LET wildcardModules == wildcardImportsByDocument[uri]
        RECURSIVE Concat(_)
        Concat(i) == IF i > Len(wildcardModules) THEN <<>>
                     ELSE getModuleExports(wildcardModules[i]) \o Concat(i + 1)
    IN  Concat(1)

findModuleExportingSymbol(symbolName) ==
    LET hits == SelectSeq(symbolsByModule,
                          LAMBDA e : \E i \in 1..Len(e.v) : e.v[i].name = symbolName)
    IN  [i \in 1..Len(hits) |-> hits[i].k]

isSymbolFromWildcardImport(uri, symbolName) ==
    LET wildcardSymbols == getWildcardImportedSymbols(uri)
    IN  \E i \in 1..Len(wildcardSymbols) : wildcardSymbols[i].name = symbolName

\* getModuleByName: the first record of that name, in the insertion order of
\* this.modules
getModuleByName(moduleName) ==
    LET named == SelectSeq(modules, LAMBDA e : e.v.name = moduleName)
    IN  IF named = <<>> THEN NoModule ELSE named[1].v

isSymbolExportedBy(symbolName, moduleName) ==
    LET exports == getModuleExports(moduleName)
    IN  \E i \in 1..Len(exports) : exports[i].name = symbolName

\* the undefined of getWildcardImportSourceModule; a module name it returns is
\* held as the one-element sequence of that name
NoSource == <<>>

\* getWildcardImportSourceModule that keeps looking after its first match
getWildcardImportSourceModuleLast(uri, symbolName) ==
    LET wildcardModules == wildcardImportsByDocument[uri]
        hits == {i \in 1..Len(wildcardModules) :
                    isSymbolExportedBy(symbolName, wildcardModules[i])}
    IN  IF hits = {} THEN NoSource
        ELSE <<wildcardModules[CHOOSE i \in hits : \A j \in hits : i >= j]>>

\* getWildcardImportSourceModule, NoSource standing for undefined
getWildcardImportSourceModule(uri, symbolName) ==
    LET wildcardModules == wildcardImportsByDocument[uri]
        hits == {i \in 1..Len(wildcardModules) :
                    isSymbolExportedBy(symbolName, wildcardModules[i])}
    IN  IF hits = {} THEN NoSource
        ELSE <<wildcardModules[CHOOSE i \in hits : \A j \in hits : i <= j]>>

\* Array.prototype.indexOf, 1-based
IndexOf(seq, x) == CHOOSE i \in 1..Len(seq) : seq[i] = x /\ \A j \in 1..(i - 1) : seq[j] # x

\* CycleFound without the closing element
CycleFoundOpen(path, moduleName) ==
    SubSeq(path, IndexOf(path, moduleName), Len(path))

\* CycleFound that keeps the whole path instead of its slice
CycleFoundWholePath(path, moduleName) == path \o <<moduleName>>

\* [...path.slice(cycleStart), moduleName]
CycleFound(path, moduleName) ==
    SubSeq(path, IndexOf(path, moduleName), Len(path)) \o <<moduleName>>

\* the closure dfs of detectCircularDependencies, as a function of the variables it
\* captures: st is [cycles, visited, path] before the call, the value is st after it
RECURSIVE dfs(_, _)
RECURSIVE dfsImports(_, _, _)

\* the loop of lines 396-398 from the i-th import on
dfsImports(imports, i, st) ==
    IF i > Len(imports) THEN st
    ELSE dfsImports(imports, i + 1, dfs(imports[i].moduleName, st))

\* dfs with one set for both tests: a module seen before counts as on the path
dfsVisitedOnly(moduleName, st) ==
    IF moduleName \in st.visited
    THEN [st EXCEPT !.cycles = Append(st.cycles, Append(st.path, moduleName))]
    ELSE LET entered == [st EXCEPT !.visited = st.visited \cup {moduleName},
                                   !.path = Append(st.path, moduleName)]
             module == getModuleByName(moduleName)
             left == IF module # NoModule THEN dfsImports(module.imports, 1, entered)
                                          ELSE entered
         IN  [left EXCEPT !.path = SubSeq(left.path, 1, Len(left.path) - 1)]

dfs(moduleName, st) ==
    IF \E i \in 1..Len(st.path) : st.path[i] = moduleName
    THEN [st EXCEPT !.cycles = Append(st.cycles, CycleFound(st.path, moduleName))]
    ELSE IF moduleName \in st.visited THEN st
    ELSE LET entered == [st EXCEPT !.visited = st.visited \cup {moduleName},
                                   !.path = Append(st.path, moduleName)]
             module == getModuleByName(moduleName)
             left == IF module # NoModule THEN dfsImports(module.imports, 1, entered)
                                          ELSE entered
         IN  [left EXCEPT !.path = SubSeq(left.path, 1, Len(left.path) - 1)]

detectCircularDependencies(startModule) ==
    dfs(startModule, [cycles |-> <<>>, visited |-> {}, path |-> <<>>]).cycles

----------------------------------------------------------------------------
(* Strings, as the aggregator's helpers use them *)

UpperCaseLetters == "ABCDEFGHIJKLMNOPQRSTUVWXYZ"
LowerCaseLetters == "abcdefghijklmnopqrstuvwxyz"
DecimalDigits == "0123456789"

CharAt(s, i) == SubSeq(s, i, i)

CharsOf(s) == {CharAt(s, i) : i \in 1..Len(s)}

\* the characters the regular expression class \w matches
WordChars == CharsOf(UpperCaseLetters) \cup CharsOf(LowerCaseLetters)
                \cup CharsOf(DecimalDigits) \cup {"_"}

LowerChar(c) ==
    IF c \in CharsOf(UpperCaseLetters)
    THEN CharAt(LowerCaseLetters,
                CHOOSE i \in 1..Len(UpperCaseLetters) : CharAt(UpperCaseLetters, i) = c)
    ELSE c

RECURSIVE toLowerCase(_)
toLowerCase(s) ==
    IF Len(s) = 0 THEN ""
    ELSE LowerChar(CharAt(s, 1)) \o toLowerCase(SubSeq(s, 2, Len(s)))

\* String.prototype.replace(/\\/g, '/')
RECURSIVE BackslashesToSlashes(_)
BackslashesToSlashes(s) ==
    IF Len(s) = 0 THEN ""
    ELSE (IF CharAt(s, 1) = "\\" THEN "/" ELSE CharAt(s, 1))
             \o BackslashesToSlashes(SubSeq(s, 2, Len(s)))

\* String.prototype.includes
Includes(s, part) ==
    \E i \in 1..(Len(s) - Len(part) + 1) : SubSeq(s, i, i + Len(part) - 1) = part

\* String.prototype.substring(0, n)
Substring0(s, n) == SubSeq(s, 1, IF Len(s) < n THEN Len(s) ELSE n)

\* the length of the longest run of \w characters of s that starts at position i
RECURSIVE WordRun(_, _)
WordRun(s, i) ==
    IF i <= Len(s) /\ CharAt(s, i) \in WordChars THEN 1 + WordRun(s, i + 1) ELSE 0

\* match() found nothing (null)
NoMatch == <<>>

\* message.match(/Variable '(\w+)'/): the capture groups of the leftmost match.  \w+
\* is greedy and the quote that must follow is no \w character, so at a given start
\* the only candidate is the whole run of \w characters.
MatchVariableName(message) ==
    LET head == "Variable '"
        Matches(i) ==
            /\ SubSeq(message, i, i + Len(head) - 1) = head
            /\ WordRun(message, i + Len(head)) >= 1
            /\ CharAt(message, i + Len(head) + WordRun(message, i + Len(head))) = "'"
        starts == {i \in 1..(Len(message) - Len(head)) : Matches(i)}
    IN  IF starts = {} THEN NoMatch
        ELSE LET i == CHOOSE k \in starts : \A o \in starts : k <= o
             IN  << SubSeq(message, i + Len(head),
                           i + Len(head) + WordRun(message, i + Len(head)) - 1) >>

----------------------------------------------------------------------------
(* DiagnosticAggregator.  The vscode.DiagnosticCollection objects the class also  *)
(* feeds (this.collections) belong to the editor and are read by no method of the *)
(* class; they are not carried.                                                   *)

DiagnosticSources == {"alpha", "lsp", "static", "custom"}

SOURCE_PRIORITY(source) ==
    CASE source = "alpha"  -> 1
      [] source = "lsp"    -> 2
      [] source = "static" -> 3
      [] source = "custom" -> 4

\* first characters of the message that diagnosticKey keeps
KeyPrefixLength == 50

\* vscode.Diagnostic
Diagnostic(line, character, endLine, endCharacter, message, severity) ==
    [range    |-> [start |-> [line |-> line, character |-> character],
                   end   |-> [line |-> endLine, character |-> endCharacter]],
     message  |-> message,
     severity |-> severity]

\* every path the aggregator is handed, as a uri or as the file of a raw diagnostic;
\* "a.ahk" and "A.ahk" differ in case only
KnownPaths == Files \cup {"a.ahk"}

\* uri.fsPath.toLowerCase().replace(/\\/g, '/'), computed once per known path
NormalizedUris == [p \in KnownPaths |-> BackslashesToSlashes(toLowerCase(p))]

normalizeUri(uri) == NormalizedUris[uri]

\* path.normalize(filePath).toLowerCase(); path.normalize leaves a bare file name
\* as it is
NormalizedFilePaths == [p \in KnownPaths |-> toLowerCase(p)]

normalizeFilePath(filePath) == NormalizedFilePaths[filePath]

\* the inner map of a file, a fresh one when the file is not tracked
FileDiagnostics(key) ==
    IF MapHas(diagnostics, key) THEN MapGet(diagnostics, key) ELSE EmptyMap

\* StoreDiagnostics as an incremental append would leave this.diagnostics: the new
\* entries go behind the ones the producer had stored
StoreDiagnosticsAppending(uri, source, list) ==
    LET key == normalizeUri(uri)
        old == IF MapHas(FileDiagnostics(key), source)
               THEN MapGet(FileDiagnostics(key), source) ELSE <<>>
    IN  MapSet(diagnostics, key, MapSet(FileDiagnostics(key), source, old \o list))

\* this.diagnostics after setDiagnostics(uri, source, list)
StoreDiagnostics(uri, source, list) ==
    LET key == normalizeUri(uri)
    IN  MapSet(diagnostics, key, MapSet(FileDiagnostics(key), source, list))

\* number of (file, source) lists the aggregator holds
TrackedLists(diags) ==
    LET RECURSIVE Count(_)
        Count(i) == IF i > Len(diags) THEN 0 ELSE Len(diags[i].v) + Count(i + 1)
    IN  Count(1)

\* setDiagnostics(uri, source, list)
SetDiagnostics(uri, source, list) ==
    /\ last' = Call("setDiagnostics", "", "")
    /\ diagnostics' = StoreDiagnostics(uri, source, list)
    /\ TrackedLists(diagnostics') <= MaxTrackedLists
    /\ UNCHANGED indexVars

toVsCodeSeverity(severity) ==
    CASE severity = "error"   -> "Error"
      [] severity = "warning" -> "Warning"
      [] severity = "info"    -> "Information"
      [] severity = "hint"    -> "Hint"
      [] OTHER                -> "Error"

Max0(n) == IF n < 0 THEN 0 ELSE n

NoExtra == ""

\* convertAlphaDiagnostic: positions become 0-based; `x || 999` yields 999 when x is 0
convertAlphaDiagnostic(d) ==
    Diagnostic(Max0(d.line - 1),
               Max0(d.column - 1),
               Max0(d.endLine - 1),
               IF Max0(d.endColumn - 1) = 0 THEN 999 ELSE Max0(d.endColumn - 1),
               IF d.extra # NoExtra THEN d.message \o "\nSpecifically: " \o d.extra
                                    ELSE d.message,
               toVsCodeSeverity(d.severity))

\* a raw diagnostic of the interpreter (AlphaDiagnostic)
AlphaDiagnostic(file, line, column, endLine, endColumn, message, severity, extra) ==
    [file |-> file, line |-> line, column |-> column, endLine |-> endLine,
     endColumn |-> endColumn, message |-> message, severity |-> severity,
     extra |-> extra]

NeverAssigned(name) == "Variable '" \o name \o "' appears to never be assigned"

\* the messages the interpreter emits here
AlphaMessages ==
    {NeverAssigned("Sum"), NeverAssigned("Avg"), NeverAssigned("Max"),
     "Call to undefined function"}

\* the two tests of isWildcardImportSymbolWarning on the message, computed once per
\* message
SaysNeverAssigned ==
    [m \in AlphaMessages |-> Includes(m, "appears to never be assigned")]

VariableNameIn == [m \in AlphaMessages |-> MatchVariableName(m)]

isWildcardImportSymbolWarning(uri, diagnostic) ==
    IF ~SaysNeverAssigned[diagnostic.message] THEN FALSE
    ELSE LET match == VariableNameIn[diagnostic.message]
         IN  IF match = NoMatch THEN FALSE
             ELSE isSymbolFromWildcardImport(uri, match[1])

\* the list setAlphaDiagnostics hands to setDiagnostics
AlphaToStore(uri, alphaDiagnostics) ==
    LET mine == SelectSeq(alphaDiagnostics,
                    LAMBDA d : normalizeFilePath(d.file) = normalizeFilePath(uri))
        kept == SelectSeq(mine, LAMBDA d : ~isWildcardImportSymbolWarning(uri, d))
    IN  [i \in 1..Len(kept) |-> convertAlphaDiagnostic(kept[i])]

\* setAlphaDiagnostics(uri, alphaDiagnostics)
SetAlphaDiagnostics(uri, alphaDiagnostics) ==
    /\ diagnostics' = StoreDiagnostics(uri, "alpha", AlphaToStore(uri, alphaDiagnostics))
    /\ TrackedLists(diagnostics') <= MaxTrackedLists
    /\ last' = Call("setAlphaDiagnostics", uri, alphaDiagnostics)
    /\ UNCHANGED indexVars

\* clearDiagnostics(uri, source) that drops the file's whole map
ClearDiagnosticsOfWholeFile(uri, source) ==
    /\ diagnostics' = MapDelete(diagnostics, normalizeUri(uri))
    /\ last' = Call("clearDiagnostics", "", "")
    /\ UNCHANGED indexVars

\* clearDiagnostics(uri, source)
ClearDiagnosticsOf(uri, source) ==
    LET key == normalizeUri(uri)
    IN  /\ diagnostics' = IF MapHas(diagnostics, key)
                          THEN MapSet(diagnostics, key, MapDelete(MapGet(diagnostics, key), source))
                          ELSE diagnostics
        /\ last' = Call("clearDiagnostics", "", "")
        /\ UNCHANGED indexVars

\* clearDiagnostics(uri) without a source
ClearDiagnostics(uri) ==
    /\ diagnostics' = MapDelete(diagnostics, normalizeUri(uri))
    /\ last' = Call("clearDiagnostics", "", "")
    /\ UNCHANGED indexVars

\* clearAll()
ClearAll ==
    /\ diagnostics' = EmptyMap
    /\ last' = Call("clearAll", "", "")
    /\ UNCHANGED indexVars

\* CompareAggregated without its priority test: by line only
CompareByLineOnly(a, b) ==
    a.diagnostic.range.start.line - b.diagnostic.range.start.line

\* the comparator getDiagnostics passes to Array.prototype.sort
CompareAggregated(a, b) ==
    IF a.priority # b.priority THEN a.priority - b.priority
    ELSE a.diagnostic.range.start.line - b.diagnostic.range.start.line

\* Array.prototype.sort is stable: an element goes behind every element that does not
\* compare greater than it
InsertSorted(sorted, x) ==
    LET before == {i \in 1..Len(sorted) : CompareAggregated(sorted[i], x) <= 0}
        n == IF before = {} THEN 0 ELSE CHOOSE i \in before : \A j \in before : j <= i
    IN  SubSeq(sorted, 1, n) \o <<x>> \o SubSeq(sorted, n + 1, Len(sorted))

RECURSIVE SortAggregated(_)
SortAggregated(list) ==
    IF list = <<>> THEN <<>>
    ELSE InsertSorted(SortAggregated(SubSeq(list, 1, Len(list) - 1)), list[Len(list)])

\* `result` of getDiagnostics before the sort: the lists of the file's map, in the
\* map's insertion order
CollectAggregated(fileDiagnostics) ==
    LET RECURSIVE Collect(_)
        Collect(i) ==
            IF i > Len(fileDiagnostics) THEN <<>>
            ELSE [k \in 1..Len(fileDiagnostics[i].v) |->
                     [diagnostic |-> fileDiagnostics[i].v[k],
                      source     |-> fileDiagnostics[i].k,
                      priority   |-> SOURCE_PRIORITY(fileDiagnostics[i].k)]]
                 \o Collect(i + 1)
    IN  Collect(1)

getDiagnostics(uri) ==
    LET key == normalizeUri(uri)
    IN  IF ~MapHas(diagnostics, key) THEN <<>>
        ELSE SortAggregated(CollectAggregated(MapGet(diagnostics, key)))

getDiagnosticsFromSource(uri, source) ==
    LET key == normalizeUri(uri)
    IN  IF MapHas(diagnostics, key) /\ MapHas(MapGet(diagnostics, key), source)
        THEN MapGet(MapGet(diagnostics, key), source)
        ELSE <<>>

\* const counts = { errors: 0, warnings: 0, info: 0, hints: 0 }
ZeroCounts == [errors |-> 0, warnings |-> 0, info |-> 0, hints |-> 0]

\* the closure iterate of getCounts from the i-th diagnostic on: counts before,
\* counts after
RECURSIVE Iterate(_, _, _)
Iterate(counts, list, i) ==
    IF i > Len(list) THEN counts
    ELSE LET severity == list[i].severity
             counted ==
                 CASE severity = "Error"       -> [counts EXCEPT !.errors = @ + 1]
                   [] severity = "Warning"     -> [counts EXCEPT !.warnings = @ + 1]
                   [] severity = "Information" -> [counts EXCEPT !.info = @ + 1]
                   [] severity = "Hint"        -> [counts EXCEPT !.hints = @ + 1]
                   [] OTHER                    -> counts
         IN  Iterate(counted, list, i + 1)

\* the loop over fileDiagnostics.values() that looks at the first list only
RECURSIVE IterateFirstOf(_, _, _)
IterateFirstOf(counts, fileDiagnostics, i) ==
    IF i > Len(fileDiagnostics) THEN counts
    ELSE Iterate(counts, fileDiagnostics[i].v, 1)

\* for (const diagnostics of fileDiagnostics.values()) iterate(diagnostics)
RECURSIVE IterateValuesOf(_, _, _)
IterateValuesOf(counts, fileDiagnostics, i) ==
    IF i > Len(fileDiagnostics) THEN counts
    ELSE IterateValuesOf(Iterate(counts, fileDiagnostics[i].v, 1), fileDiagnostics, i + 1)

\* getCounts(uri)
getCounts(uri) ==
    LET key == normalizeUri(uri)
    IN  IF MapHas(diagnostics, key)
        THEN IterateValuesOf(ZeroCounts, MapGet(diagnostics, key), 1)
        ELSE ZeroCounts

\* getCounts() without a uri
getCountsOfAll ==
    LET RECURSIVE Files_(_, _)
        Files_(counts, i) ==
            IF i > Len(diagnostics) THEN counts
            ELSE Files_(IterateValuesOf(counts, diagnostics[i].v, 1), i + 1)
    IN  Files_(ZeroCounts, 1)

\* diagnosticKey without the substring: the whole message is part of the key
diagnosticKeyWholeMessage(d) ==
    ToString(d.range.start.line) \o ":" \o ToString(d.range.start.character) \o ":"
        \o d.message

diagnosticKey(d) ==
    ToString(d.range.start.line) \o ":" \o ToString(d.range.start.character) \o ":"
        \o Substring0(d.message, KeyPrefixLength)

\* the values of the map `seen`, in insertion order
getDeduplicatedDiagnostics(uri) ==
    LET aggregated == getDiagnostics(uri)
        RECURSIVE Seen(_)
        Seen(i) ==
            IF i = 0 THEN EmptyMap
            ELSE LET key == diagnosticKey(aggregated[i].diagnostic)
                 IN  IF MapHas(Seen(i - 1), key) THEN Seen(i - 1)
                     ELSE MapSet(Seen(i - 1), key, aggregated[i].diagnostic)
        seen == Seen(Len(aggregated))
    IN  [i \in 1..Len(seen) |-> seen[i].v]

----------------------------------------------------------------------------
(* Asynchronous runs.  indexFile is suspended twice, at `await openTextDocument`   *)
(* (line 145) and at `await resolver.isModule` (line 149); lines 155-177 have no   *)
(* await and run in one piece.  JavaScript runs one continuation at a time, so a   *)
(* step below is the code between two suspension points, and everything else       *)
(* (queries, watcher handlers, other continuations) runs between steps.            *)

NoDocument == [none |-> TRUE]

\* an indexFile run: the file, the await it is suspended at ("settled" once it
\* returned), the document openTextDocument resolved to, the change event that
\* document's text is as of, and whether indexWorkspace keeps its promise
Run(uri, at, document, textAsOf, batch) ==
    [uri |-> uri, at |-> at, document |-> document, textAsOf |-> textAsOf,
     batch |-> batch]

RemoveAt(seq, i) == SubSeq(seq, 1, i - 1) \o SubSeq(seq, i + 1, Len(seq))

\* the run at position i returned: indexWorkspace keeps its promise in
\* indexPromises, the watcher drops the promise of its handler
Settle(i, document) ==
    IF pending[i].batch
    THEN [pending EXCEPT ![i] = Run(pending[i].uri, "settled", document,
                                    pending[i].textAsOf, TRUE)]
    ELSE RemoveAt(pending, i)

\* fileWatcher.onDidCreate / onDidChange: indexFile(uri) runs up to line 145
WatcherChange(uri) ==
    /\ Len(pending) < MaxPending
    /\ delivered[uri] < MaxEvents
    /\ delivered' = [delivered EXCEPT ![uri] = delivered[uri] + 1]
    /\ pending' = Append(pending, Run(uri, "openTextDocument", NoDocument, 0, FALSE))
    /\ deleted' = [deleted EXCEPT ![uri] = FALSE]
    /\ UNCHANGED <<indexVars, diagnostics, last, workspaceCall, recordAsOf>>

\* fileWatcher.onDidDelete: removeFile(uri)
WatcherDelete(uri) ==
    /\ RemoveFile(uri)
    /\ deleted' = [deleted EXCEPT ![uri] = TRUE]
    /\ UNCHANGED <<pending, workspaceCall, delivered, recordAsOf>>

\* openTextDocument of the run at position i settles.  Rejected: the catch block
\* ends the run.  Resolved with doc, the file's text at this moment: the run goes on
\* to line 149.  A file whose last event is a delete has no text to resolve with.
DocumentLoads(i, doc) ==
    /\ pending[i].at = "openTextDocument"
    /\ deleted[pending[i].uri] => IsUnreadable(doc)
    /\ IF IsUnreadable(doc)
       THEN /\ IndexFile(pending[i].uri, doc)
            /\ pending' = Settle(i, doc)
       ELSE /\ pending' = [pending EXCEPT ![i] =
                              Run(pending[i].uri, "isModule", doc,
                                  delivered[pending[i].uri], pending[i].batch)]
            /\ UNCHANGED <<indexVars, diagnostics, last>>
    /\ UNCHANGED <<workspaceCall, delivered, recordAsOf, deleted>>

\* resolver.isModule of the run at position i resolves: lines 155-177 run
IsModuleResolves(i) ==
    /\ pending[i].at = "isModule"
    /\ IndexFile(pending[i].uri, pending[i].document)
    /\ pending' = Settle(i, pending[i].document)
    /\ recordAsOf' = [recordAsOf EXCEPT ![pending[i].uri] = pending[i].textAsOf]
    /\ UNCHANGED <<workspaceCall, delivered, deleted>>

\* the files findFiles may yield
DiscoveredFiles == { <<"A.ahk">>, <<"A.ahk", "B.ahk">> }

\* AllSettled as Promise.race would have it: one settled promise is enough
AnySettled(runs) ==
    \/ \A i \in 1..Len(runs) : ~runs[i].batch
    \/ \E i \in 1..Len(runs) : runs[i].batch /\ runs[i].at = "settled"

\* the promises of indexPromises are all settled
AllSettled(runs) == \A i \in 1..Len(runs) : runs[i].batch => runs[i].at = "settled"

\* IndexWorkspaceBusy without the guard of line 124: the maps are cleared again
IndexWorkspaceUnguarded ==
    /\ modules' = EmptyMap
    /\ symbolsByModule' = EmptyMap
    /\ symbolsByName' = [n \in SymbolNames |-> <<>>]
    /\ wildcardImportsByDocument' = [f \in Files |-> <<>>]
    /\ last' = Call("indexWorkspace", "", "busy")
    /\ UNCHANGED <<indexingInProgress, diagnostics, asyncVars>>

\* indexingInProgress is set: the call returns at line 124
IndexWorkspaceBusy ==
    /\ last' = Call("indexWorkspace", "", "busy")
    /\ UNCHANGED <<indexVars, diagnostics, asyncVars>>

\* a call of indexWorkspace(), up to `await findFiles` (line 132)
IndexWorkspace ==
    IF indexingInProgress
    THEN IndexWorkspaceBusy
    ELSE /\ indexingInProgress' = TRUE
         /\ modules' = EmptyMap
         /\ symbolsByModule' = EmptyMap
         /\ symbolsByName' = [n \in SymbolNames |-> <<>>]
         /\ wildcardImportsByDocument' = [f \in Files |-> <<>>]
         /\ workspaceCall' = "findFiles"
         /\ UNCHANGED <<diagnostics, last, pending, delivered, recordAsOf, deleted>>

\* findFiles resolves: files.map starts an indexFile run per file, each up to line
\* 145, and the call is suspended at `await Promise.all` (line 135)
FindFilesResolves(files) ==
    /\ workspaceCall = "findFiles"
    /\ pending' = pending \o [i \in 1..Len(files) |->
                                Run(files[i], "openTextDocument", NoDocument, 0, TRUE)]
    /\ workspaceCall' = "join"
    /\ UNCHANGED <<indexVars, diagnostics, last, delivered, recordAsOf, deleted>>

\* findFiles rejects: indexWorkspace rejects at line 132 and line 137 is never
\* reached
FindFilesRejects ==
    /\ workspaceCall = "findFiles"
    /\ workspaceCall' = "idle"
    /\ last' = Call("indexWorkspace", "", "rejected")
    /\ UNCHANGED <<indexVars, diagnostics, pending, delivered, recordAsOf, deleted>>

\* Promise.all resolves: line 137 runs and indexWorkspace resolves
JoinResolves ==
    /\ workspaceCall = "join"
    /\ AllSettled(pending)
    /\ indexingInProgress' = FALSE
    /\ workspaceCall' = "idle"
    /\ pending' = SelectSeq(pending, LAMBDA r : ~r.batch)
    /\ last' = Call("indexWorkspace", "", "resolved")
    /\ UNCHANGED <<modules, symbolsByModule, symbolsByName, wildcardImportsByDocument,
                   diagnostics, delivered, recordAsOf, deleted>>

----------------------------------------------------------------------------

NoCall == Call("none", "", DocEmpty)

Init ==
    /\ modules = EmptyMap
    /\ symbolsByModule = EmptyMap
    /\ symbolsByName = [n \in SymbolNames |-> <<>>]
    /\ wildcardImportsByDocument = [f \in Files |-> <<>>]
    /\ indexingInProgress = FALSE
    /\ diagnostics = EmptyMap
    /\ last = NoCall
    /\ pending = <<>>
    /\ workspaceCall = "idle"
    /\ delivered = [f \in Files |-> 0]
    /\ recordAsOf = [f \in Files |-> 0]
    /\ deleted = [f \in Files |-> FALSE]

\* every call runs to its end before the next one is made
Next ==
    \/ \E uri \in LibraryFiles, doc \in Docs \cup {Unreadable} :
          IndexFile(uri, doc) /\ UNCHANGED asyncVars
    \/ \E uri \in LibraryFiles : RemoveFile(uri) /\ UNCHANGED asyncVars

Spec == Init /\ [][Next]_vars

----------------------------------------------------------------------------
(* The aggregator on its own: producers set and clear their lists *)

\* "a.ahk" and "A.ahk" name one file to the aggregator (normalizeUri)
AggregatorUris == {"A.ahk", "a.ahk", "B.ahk"}

AggregatorKeys == {normalizeUri(u) : u \in AggregatorUris}

LongPrefix == "Function call has too many parameters for callee: "

UnusedWarning == Diagnostic(2, 0, 2, 6, "Unused variable x", "Warning")
UnusedHint    == Diagnostic(2, 0, 2, 9, "Unused variable x", "Hint")
MissingBrace  == Diagnostic(5, 1, 5, 2, "Missing brace", "Error")
TooManyFoo    == Diagnostic(2, 4, 2, 7, LongPrefix \o "Foo", "Error")
TooManyBar    == Diagnostic(2, 4, 2, 7, LongPrefix \o "Bar", "Information")

DiagnosticLists ==
    { <<>>,
      <<MissingBrace, UnusedWarning>>,
      <<TooManyFoo, UnusedHint, TooManyBar>> }

NextAggregator ==
    \/ \E uri \in AggregatorUris, source \in DiagnosticSources, list \in DiagnosticLists :
          SetDiagnostics(uri, source, list) /\ UNCHANGED asyncVars
    \/ \E uri \in AggregatorUris, source \in DiagnosticSources :
          ClearDiagnosticsOf(uri, source) /\ UNCHANGED asyncVars
    \/ \E uri \in AggregatorUris : ClearDiagnostics(uri) /\ UNCHANGED asyncVars
    \/ ClearAll /\ UNCHANGED asyncVars

SpecAggregator == Init /\ [][NextAggregator]_vars

\* C7: getDiagnostics(file) returns every stored entry of every producer exactly
\* once, ranked alpha=1 < lsp=2 < static=3 < custom=4 and sorted ascending by
\* (rank, start line); entries equal on both keys keep the order of the producer's
\* list.
C7_MergedOrder ==
    \A f \in AggregatorUris :
        LET agg == getDiagnostics(f)
            rank == [alpha |-> 1, lsp |-> 2, static |-> 3, custom |-> 4]
            lineOf(d) == d.range.start.line
            lines == {lineOf(agg[i].diagnostic) : i \in 1..Len(agg)}
                        \cup UNION {{lineOf(getDiagnosticsFromSource(f, s)[i]) :
                                        i \in 1..Len(getDiagnosticsFromSource(f, s))} :
                                    s \in DiagnosticSources}
        IN  /\ \A i \in 1..Len(agg) : agg[i].priority = rank[agg[i].source]
            /\ \A i, j \in 1..Len(agg) :
                  i < j => \/ rank[agg[i].source] < rank[agg[j].source]
                           \/ /\ rank[agg[i].source] = rank[agg[j].source]
                              /\ lineOf(agg[i].diagnostic) <= lineOf(agg[j].diagnostic)
            /\ \A s \in DiagnosticSources, l \in lines :
                  LET shown == SelectSeq(agg, LAMBDA e : e.source = s
                                                          /\ lineOf(e.diagnostic) = l)
                  IN  [i \in 1..Len(shown) |-> shown[i].diagnostic]
                        = SelectSeq(getDiagnosticsFromSource(f, s), LAMBDA d : lineOf(d) = l)

\* a file whose producers stored their lists against the order of authority, the
\* first list with its lines out of order and both with an entry at line 2
C7_Witness ==
    \E f \in AggregatorKeys :
        LET m == FileDiagnostics(f)
        IN  /\ Len(m) >= 2
            /\ SOURCE_PRIORITY(m[1].k) > SOURCE_PRIORITY(m[2].k)
            /\ m[1].v = <<MissingBrace, UnusedWarning>>
            /\ m[2].v = <<TooManyFoo, UnusedHint, TooManyBar>>

\* C8: getDeduplicatedDiagnostics(file) is the subsequence of getDiagnostics(file)
\* that keeps, for every key (start line, start column, first 50 characters of the
\* message), the first entry with that key and no other; the kept entry is of the
\* highest-priority producer that has the key.
C8_Deduplicated ==
    \A f \in AggregatorUris :
        LET agg == getDiagnostics(f)
            ded == getDeduplicatedDiagnostics(f)
            keyOf(d) == <<d.range.start.line, d.range.start.character,
                          SubSeq(d.message, 1, IF Len(d.message) < 50 THEN Len(d.message) ELSE 50)>>
            keys == [i \in 1..Len(agg) |-> keyOf(agg[i].diagnostic)]
            firsts == {i \in 1..Len(agg) : \A j \in 1..(i - 1) : keys[j] # keys[i]}
            kept(k) == CHOOSE i \in firsts : Cardinality({j \in firsts : j <= i}) = k
        IN  /\ Len(ded) = Cardinality(firsts)
            /\ \A k \in 1..Len(ded) : ded[k] = agg[kept(k)].diagnostic
            /\ \A k, l \in 1..Len(ded) : k # l => keyOf(ded[k]) # keyOf(ded[l])
            /\ \A i \in 1..Len(agg) : \E k \in 1..Len(ded) : keyOf(ded[k]) = keys[i]
            /\ \A k \in 1..Len(ded), j \in 1..Len(agg) :
                  keys[j] = keys[kept(k)] => agg[kept(k)].priority <= agg[j].priority

\* a file with two entries of different producers under one key, and two entries
\* whose messages differ only behind the 50th character
C8_Witness ==
    \E f \in AggregatorUris :
        LET agg == getDiagnostics(f)
        IN  /\ Len(getDeduplicatedDiagnostics(f)) < Len(agg)
            /\ \E i, j \in 1..Len(agg) :
                  /\ agg[i].source # agg[j].source
                  /\ agg[i].diagnostic = UnusedHint
                  /\ agg[j].diagnostic = UnusedWarning
            /\ \E i, j \in 1..Len(agg) :
                  /\ agg[i].diagnostic = TooManyFoo
                  /\ agg[j].diagnostic = TooManyBar

\* C9: setDiagnostics(file, producer, L) leaves exactly L stored for (file,
\* producer) and leaves the list of every other (file, producer) pair as it was.
C9_SetReplaces ==
    [][\A uri \in AggregatorUris, source \in DiagnosticSources, list \in DiagnosticLists :
          SetDiagnostics(uri, source, list) =>
              /\ getDiagnosticsFromSource(uri, source)' = list
              /\ \A u \in AggregatorUris, s \in DiagnosticSources :
                    (normalizeUri(u) # normalizeUri(uri) \/ s # source) =>
                        getDiagnosticsFromSource(u, s)' = getDiagnosticsFromSource(u, s)]_vars

\* setDiagnostics returned while the aggregator holds two non-empty lists that
\* differ: the list it stored and the list of another (file, producer) pair
C9_Witness ==
    /\ last.op = "setDiagnostics"
    /\ TrackedLists(diagnostics) = 2
    /\ \E u1, u2 \in AggregatorUris, s1, s2 \in DiagnosticSources :
          /\ getDiagnosticsFromSource(u1, s1) = <<MissingBrace, UnusedWarning>>
          /\ getDiagnosticsFromSource(u2, s2) = <<TooManyFoo, UnusedHint, TooManyBar>>

\* the entries of one severity stored for a file, as (producer, position) pairs
StoredOfSeverity(uri, severity) ==
    UNION {{<<source, i>> : i \in {j \in 1..Len(getDiagnosticsFromSource(uri, source)) :
                                      getDiagnosticsFromSource(uri, source)[j].severity = severity}} :
           source \in DiagnosticSources}

\* one uri for each file the aggregator is handed under several spellings
OneUriPerFile ==
    {u \in AggregatorUris :
        u = CHOOSE v \in AggregatorUris : normalizeUri(v) = normalizeUri(u)}

RECURSIVE SumOver(_, _)
SumOver(uris, component) ==
    IF uris = {} THEN 0
    ELSE LET u == CHOOSE v \in uris : TRUE
         IN  getCounts(u)[component] + SumOver(uris \ {u}, component)

\* C19: getCounts(file) is, per severity, the number of entries stored for the file
\* over all producers, and getCounts() without a file is the component-wise sum of
\* getCounts(f) over the tracked files, after any setDiagnostics, clearDiagnostics
\* and clearAll calls.
C19_CountsTally ==
    /\ \A f \in AggregatorUris :
          getCounts(f) = [errors   |-> Cardinality(StoredOfSeverity(f, "Error")),
                          warnings |-> Cardinality(StoredOfSeverity(f, "Warning")),
                          info     |-> Cardinality(StoredOfSeverity(f, "Information")),
                          hints    |-> Cardinality(StoredOfSeverity(f, "Hint"))]
    /\ \A component \in DOMAIN ZeroCounts :
          getCountsOfAll[component] = SumOver(OneUriPerFile, component)

\* one file holds the lists of two producers, five entries of all four severities
C19_Witness ==
    \E f \in AggregatorUris :
        /\ Len(FileDiagnostics(normalizeUri(f))) = 2
        /\ getCounts(f) = [errors |-> 2, warnings |-> 1, info |-> 1, hints |-> 1]

\* C20: clearDiagnostics(file, producer) empties what is stored for (file, producer)
\* and leaves the entries of every other producer of the file and of every other
\* file as they were; clearDiagnostics(file) without a producer empties what every
\* producer stored for the file and leaves other files as they were.  (A call that
\* leaves this.diagnostics as it was leaves every entry as it was.)
C20_ClearFrame ==
    [][last'.op = "clearDiagnostics" =>
          \A uri \in AggregatorUris :
              /\ \A source \in DiagnosticSources :
                    ClearDiagnosticsOf(uri, source) =>
                        /\ getDiagnosticsFromSource(uri, source)' = <<>>
                        /\ \/ UNCHANGED diagnostics
                           \/ \A u \in AggregatorUris, s \in DiagnosticSources :
                                 (normalizeUri(u) # normalizeUri(uri) \/ s # source) =>
                                     getDiagnosticsFromSource(u, s)' = getDiagnosticsFromSource(u, s)
              /\ ClearDiagnostics(uri) =>
                    /\ \A s \in DiagnosticSources : getDiagnosticsFromSource(uri, s)' = <<>>
                    /\ \/ UNCHANGED diagnostics
                       \/ \A u \in AggregatorUris, s \in DiagnosticSources :
                             normalizeUri(u) # normalizeUri(uri) =>
                                 getDiagnosticsFromSource(u, s)' = getDiagnosticsFromSource(u, s)]_vars

\* clearDiagnostics returned and a file whose map lost a producer still holds the
\* list of another
C20_Witness ==
    /\ last.op = "clearDiagnostics"
    /\ \E f \in AggregatorUris, s \in DiagnosticSources :
          /\ Len(FileDiagnostics(normalizeUri(f))) = 1
          /\ getDiagnosticsFromSource(f, s) = <<TooManyFoo, UnusedHint, TooManyBar>>

----------------------------------------------------------------------------
(* Properties of the symbol index, checked under Spec *)

ModuleNames == {"A", "B"}

Readable(doc) == ~IsUnreadable(doc)

ExportsName(exports, n) == \E i \in 1..Len(exports) : exports[i].symbolName = n

\* the entries of a symbol list that are located in file uri
OwnedBy(symbols, uri) == SelectSeq(symbols, LAMBDA s : s.moduleUri = uri)

\* what every query of the index returns, for every argument
QueryResults ==
    [getModule        |-> [f \in Files |-> getModuleByUri(f)],
     getExportsOf     |-> [m \in ModuleNames |-> getModuleExports(m)],
     getSymbolsNamed  |-> [n \in SymbolNames |-> getSymbolsByName(n)],
     findExporting    |-> [n \in SymbolNames |-> findModuleExportingSymbol(n)],
     getWildcard      |-> [f \in Files |-> getWildcardImportedSymbols(f)]]

\* C1: right after indexFile(D) succeeded, getModuleByUri(D) is a record whose
\* exports and imports are exactly the lists the scanner yielded for D's text,
\* whatever was indexed before.
C1_IndexThenGetModule ==
    (last.op = "indexFile" /\ Readable(last.arg)) =>
        LET m == getModuleByUri(last.uri)
        IN  /\ m # NoModule
            /\ m.exports = last.arg.exports
            /\ m.imports = last.arg.imports

\* D was re-indexed with a text declaring nothing after it had exported symbols
\* (their entries are still in symbolsByName), and its record is the new, empty one
C1_Witness ==
    /\ last.op = "indexFile" /\ last.arg = DocWildA
    /\ \E n \in SymbolNames : OwnedBy(symbolsByName[n], last.uri) # <<>>
    /\ getModuleByUri(last.uri) # NoModule
    /\ getModuleByUri(last.uri).exports = <<>>

\* C2: indexFile(D) called twice in a row on unchanged text: every query returns
\* after the second call what it returned after the first.
C2_IndexIdempotent ==
    [][(last.op = "indexFile" /\ IndexFile(last.uri, last.arg))
          => QueryResults' = QueryResults]_vars

\* C3: when D is re-indexed after its text stopped exporting S, getSymbolsByName(S)
\* holds no entry located in D.
C3_ReindexDropsOldSymbols ==
    [][\A uri \in Files, doc \in Docs, n \in SymbolNames :
          ( /\ IndexFile(uri, doc)
            /\ MapHas(modules, uri)
            /\ ExportsName(MapGet(modules, uri).exports, n)
            /\ ~ExportsName(doc.exports, n) )
          => OwnedBy(getSymbolsByName(n)', uri) = <<>>]_vars

\* C4: after indexFile(M) every symbol M exports has an entry owned by M under its
\* name; after removeFile(M) no name has an entry owned by M.
C4_SymbolsFollowModule ==
    /\ (last.op = "indexFile" /\ Readable(last.arg)) =>
          \A i \in 1..Len(last.arg.exports) :
              \E k \in 1..Len(getSymbolsByName(last.arg.exports[i].symbolName)) :
                  LET s == getSymbolsByName(last.arg.exports[i].symbolName)[k]
                  IN  /\ s.moduleUri = last.uri
                      /\ s.moduleName = NewModuleInfo(last.uri, last.arg).name
    /\ last.op = "removeFile" =>
          \A n \in SymbolNames : OwnedBy(getSymbolsByName(n), last.uri) = <<>>

\* C5: after removeFile(D), getWildcardImportedSymbols(D) is empty and
\* isSymbolFromWildcardImport(D, n) is false for every name n.
C5_RemoveDropsWildcardRecord ==
    last.op = "removeFile" =>
        /\ getWildcardImportedSymbols(last.uri) = <<>>
        /\ \A n \in SymbolNames : ~isSymbolFromWildcardImport(last.uri, n)

\* C10: a failing indexFile(D) leaves D with no module record, no symbols and no
\* wildcard-import record, and leaves the entries of every other file as they were.
C10_FailedScanContributesNothing ==
    [][\A uri \in Files :
          IndexFile(uri, Unreadable) =>
              /\ getModuleByUri(uri)' = NoModule
              /\ \A n \in SymbolNames : OwnedBy(getSymbolsByName(n)', uri) = <<>>
              /\ wildcardImportsByDocument'[uri] = <<>>
              /\ \A f \in Files \ {uri} :
                    /\ getModuleByUri(f)' = getModuleByUri(f)
                    /\ wildcardImportsByDocument'[f] = wildcardImportsByDocument[f]
                    /\ \A n \in SymbolNames :
                          OwnedBy(getSymbolsByName(n)', f) = OwnedBy(getSymbolsByName(n), f)]_vars

----------------------------------------------------------------------------
(* The index and the runtime-source adapter together: Main.ahk imports from the
   library files and the interpreter reports on it *)

NeverSum   == AlphaDiagnostic("Main.ahk", 3, 1, 3, 4, NeverAssigned("Sum"), "warning", NoExtra)
NeverMax   == AlphaDiagnostic("Main.ahk", 4, 1, 4, 4, NeverAssigned("Max"), "warning", NoExtra)
UndefinedF == AlphaDiagnostic("Main.ahk", 6, 2, 6, 5, "Call to undefined function", "error", NoExtra)
ElseWhere  == AlphaDiagnostic("A.ahk", 1, 1, 1, 4, NeverAssigned("Avg"), "warning", NoExtra)

RawBatches == { <<NeverSum, UndefinedF>>, <<ElseWhere, NeverMax, NeverSum>> }

NextSuppress ==
    \/ \E uri \in LibraryFiles, doc \in {DocEmpty, DocNamedB} :
          IndexFile(uri, doc) /\ UNCHANGED asyncVars
    \/ \E doc \in {DocEmpty, DocWildB} : IndexFile("Main.ahk", doc) /\ UNCHANGED asyncVars
    \/ \E uri \in LibraryFiles : RemoveFile(uri) /\ UNCHANGED asyncVars
    \/ \E raw \in RawBatches : SetAlphaDiagnostics("Main.ahk", raw) /\ UNCHANGED asyncVars

SpecSuppress == Init /\ [][NextSuppress]_vars

\* the names exported by the indexed modules that D's record wildcard-imports
WildcardImportedNames(D) ==
    IF ~MapHas(modules, D) THEN {}
    ELSE LET imports == MapGet(modules, D).imports
             wanted  == {imports[i].moduleName :
                            i \in {j \in 1..Len(imports) : imports[j].isWildcard}}
             indexed == {modules[i].v : i \in 1..Len(modules)}
         IN  UNION {{M.exports[k].symbolName : k \in 1..Len(M.exports)} :
                    M \in {R \in indexed : R.name \in wanted}}

\* the messages of the runtime producer's entries in getDiagnostics(D)
RuntimeMessages(D) ==
    {getDiagnostics(D)[i].diagnostic.message :
        i \in {j \in 1..Len(getDiagnostics(D)) : getDiagnostics(D)[j].source = "alpha"}}

\* C6: when D is indexed and setAlphaDiagnostics(D, raw) returned, getDiagnostics(D)
\* holds no runtime diagnostic "Variable 'N' appears to never be assigned" for a name
\* N exported by an indexed module that D wildcard-imports, and holds every other
\* raw diagnostic addressed to D.
C6_WildcardSuppression ==
    (last.op = "setAlphaDiagnostics" /\ MapHas(modules, last.uri)) =>
        LET D == last.uri
            addressed == {last.arg[i] : i \in {j \in 1..Len(last.arg) : last.arg[j].file = D}}
            suppressed == {NeverAssigned(n) : n \in WildcardImportedNames(D)}
        IN  /\ RuntimeMessages(D) \cap suppressed = {}
            /\ \A d \in addressed : d.message \notin suppressed =>
                                        d.message \in RuntimeMessages(D)

----------------------------------------------------------------------------
(* The watcher at work: change and delete events arrive while earlier indexFile  *)
(* runs are suspended                                                            *)

\* the texts a watched file holds when it is loaded
WatchedDocs == {DocEmpty, DocNamedB}

NextWatcher ==
    \/ \E uri \in LibraryFiles : WatcherChange(uri)
    \/ \E uri \in LibraryFiles : WatcherDelete(uri)
    \/ \E i \in 1..Len(pending), doc \in WatchedDocs \cup {Unreadable} :
          DocumentLoads(i, doc)
    \/ \E i \in 1..Len(pending) : IsModuleResolves(i)

SpecWatcher == Init /\ [][NextWatcher]_vars

\* getModuleExports of the modules named, one after the other
ConcatExports(moduleNames) ==
    LET RECURSIVE Concat(_)
        Concat(i) == IF i > Len(moduleNames) THEN <<>>
                     ELSE getModuleExports(moduleNames[i]) \o Concat(i + 1)
    IN  Concat(1)

\* C11: at every point where a query can run, the record getModuleByUri(D) returns,
\* the list getModuleExports returns for that record's name and what
\* getWildcardImportedSymbols(D) returns stem from one scan of D: the list is the
\* record's exports and the wildcard symbols are those of the record's imports.
C11_ReplaceIsAtomic ==
    \A D \in LibraryFiles :
        MapHas(modules, D) =>
            LET m == getModuleByUri(D)
            IN  /\ getModuleExports(m.name) = SymbolsOf(m)
                /\ getWildcardImportedSymbols(D) = ConcatExports(WildcardModules(m.imports))

\* C12: once the watcher delivered two or more change events for a file and every
\* indexFile run they started has completed, the record stored for the file holds
\* the file's text as of the last of these events, never an earlier text.
C12_LastEditWins ==
    \A f \in LibraryFiles :
        ( /\ delivered[f] >= 2
          /\ \A i \in 1..Len(pending) : pending[i].uri # f
          /\ MapHas(modules, f) )
        => recordAsOf[f] >= delivered[f]

\* the symbols located in file f that the two symbol maps hold
SymbolsLocatedIn(f) ==
    UNION {{symbolsByName[n][i] : i \in {j \in 1..Len(symbolsByName[n]) :
                                            symbolsByName[n][j].moduleUri = f}} :
           n \in SymbolNames}
      \cup UNION {{symbolsByModule[k].v[i] : i \in {j \in 1..Len(symbolsByModule[k].v) :
                                                      symbolsByModule[k].v[j].moduleUri = f}} :
                  k \in 1..Len(symbolsByModule)}

\* C26: when the watcher delivered a change event and then a delete event for F,
\* no event for F after it, and every indexFile run for F has finished, F has no
\* module record and no symbol located in F is left, whatever the order in which
\* the steps of indexFile and removeFile ran.
C26_DeletedStaysDeleted ==
    \A F \in LibraryFiles :
        ( /\ delivered[F] >= 1
          /\ deleted[F]
          /\ \A i \in 1..Len(pending) : pending[i].uri # F )
        => /\ getModuleByUri(F) = NoModule
           /\ SymbolsLocatedIn(F) = {}

----------------------------------------------------------------------------
(* indexWorkspace: calls, the scans they launch and their joins *)

\* what openTextDocument yields for a file of the workspace
WorkspaceDocs == {DocEmpty, DocSumAvg, DocWildA, Unreadable}

NextWorkspace ==
    \/ IndexWorkspace
    \/ \E files \in DiscoveredFiles : FindFilesResolves(files)
    \/ FindFilesRejects
    \/ \E i \in 1..Len(pending), doc \in WorkspaceDocs : DocumentLoads(i, doc)
    \/ \E i \in 1..Len(pending) : IsModuleResolves(i)
    \/ JoinResolves

SpecWorkspace == Init /\ [][NextWorkspace]_vars

\* C13: a call of indexWorkspace made while an earlier call is in flight changes
\* nothing: the maps keep their content, no indexFile run is started and the call
\* in flight stays where it is.
C13_ReentrantCallIsNoOp ==
    [][(workspaceCall # "idle" /\ IndexWorkspace)
          => UNCHANGED <<indexVars, diagnostics, asyncVars>>]_vars

\* a second call returned while the first one waits for its scans, one of them
\* still in flight, and the index already holds a module
C13_Witness ==
    /\ last = Call("indexWorkspace", "", "busy")
    /\ workspaceCall = "join"
    /\ modules # EmptyMap
    /\ \E i \in 1..Len(pending) : pending[i].at # "settled"

\* C14: indexWorkspace reports completion only when the indexFile run of every
\* discovered file has returned; then every file whose scan succeeded has the
\* record of that scan, whether or not another scan failed, and every file whose
\* scan failed has no record.
C14_JoinBarrier ==
    [][JoinResolves =>
          \A i \in 1..Len(pending), f \in LibraryFiles :
              (pending[i].batch /\ pending[i].uri = f) =>
                  /\ pending[i].at = "settled"
                  /\ IF IsUnreadable(pending[i].document)
                     THEN getModuleByUri(f)' = NoModule
                     ELSE /\ getModuleByUri(f)' # NoModule
                          /\ getModuleByUri(f)'.exports = pending[i].document.exports
                          /\ getModuleByUri(f)'.imports = pending[i].document.imports]_vars

\* indexWorkspace resolved after the scan of A.ahk failed and the scan of B.ahk
\* stored its record
C14_Witness ==
    /\ last = Call("indexWorkspace", "", "resolved")
    /\ ~MapHas(modules, "A.ahk")
    /\ MapHas(modules, "B.ahk")
    /\ getModuleByUri("B.ahk").exports # <<>>

----------------------------------------------------------------------------
(* Import graphs: three files that import one another *)

ImportsOf(moduleNames) ==
    Doc(NoDirective, <<>>,
        [i \in 1..Len(moduleNames) |-> Import(moduleNames[i], FALSE, "named")])

\* a file that declares itself module B and imports Main
DocNamedBImportsMain == Doc("B", <<>>, <<Import("Main", FALSE, "named")>>)

\* the module names of the three files (getModuleName)
GraphModules == {getModuleName(f) : f \in Files}

GraphDocs ==
    {ImportsOf(<<m>>) : m \in GraphModules}
        \cup {DocEmpty, DocWildB, ImportsOf(<<"A", "B">>), DocNamedBImportsMain}

NextGraph ==
    \/ \E uri \in Files, doc \in GraphDocs : IndexFile(uri, doc) /\ UNCHANGED asyncVars
    \/ \E uri \in Files : RemoveFile(uri) /\ UNCHANGED asyncVars

SpecGraph == Init /\ [][NextGraph]_vars

\* the sequences of distinct module names
Rings ==
    UNION {{r \in [1..n -> GraphModules] : \A i, j \in 1..n : i # j => r[i] # r[j]} :
           n \in 1..Cardinality(GraphModules)}

\* every name of the ring is a module of the index and imports exactly the next
IsRing(ring) ==
    \A i \in 1..Len(ring) :
        /\ getModuleByName(ring[i]) # NoModule
        /\ \A k \in 1..Len(modules) :
              modules[k].v.name = ring[i] =>
                  /\ Len(modules[k].v.imports) = 1
                  /\ modules[k].v.imports[1].moduleName = ring[(i % Len(ring)) + 1]

\* C15: for a ring M1 -> M2 -> ... -> Mn -> M1 of n >= 1 distinct indexed modules,
\* each importing exactly the next, detectCircularDependencies(M1) returns exactly
\* one cycle, the sequence M1, M2, ..., Mn, M1.
C15_RingIsOneCycle ==
    \A ring \in Rings :
        IsRing(ring) => detectCircularDependencies(ring[1]) = << ring \o <<ring[1]>> >>

\* the ring A -> B -> Main -> A is indexed and is what detection from A reports
C15_Witness ==
    /\ IsRing(<<"A", "B", "Main">>)
    /\ detectCircularDependencies("A") = << <<"A", "B", "Main", "A">> >>

\* an import declaration of some record named a targets b
ImportsSome(a, b) ==
    \E k \in 1..Len(modules) :
        /\ modules[k].v.name = a
        /\ \E i \in 1..Len(modules[k].v.imports) : modules[k].v.imports[i].moduleName = b

\* a is indexed and an import declaration of every record named a targets b
ImportsEvery(a, b) ==
    /\ getModuleByName(a) # NoModule
    /\ \A k \in 1..Len(modules) :
          modules[k].v.name = a =>
              \E i \in 1..Len(modules[k].v.imports) : modules[k].v.imports[i].moduleName = b

\* the module names reached from the names of `from` by one or more edges
RECURSIVE ReachedFrom(_, _, _)
ReachedFrom(Edge(_, _), from, found) ==
    LET next == {b \in GraphModules : \E a \in from : Edge(a, b)} \ found
    IN  IF next = {} THEN found ELSE ReachedFrom(Edge, next, found \cup next)

\* some cycle of edges is reachable from start
CycleReachable(Edge(_, _), start) ==
    \E n \in {start} \cup ReachedFrom(Edge, {start}, {}) :
        n \in ReachedFrom(Edge, {n}, {})

\* C21: detectCircularDependencies(start) is non-empty if and only if a cycle is
\* reachable from start by following import declarations of any kind; an acyclic
\* graph in which two modules import the same descendant gives an empty result.
\* (Where several records bear one name, "if" is stated for the imports they all
\* have and "only if" for the imports any of them has.)
C21_CycleIffReachable ==
    \A start \in GraphModules :
        /\ CycleReachable(ImportsEvery, start) => detectCircularDependencies(start) # <<>>
        /\ detectCircularDependencies(start) # <<>> => CycleReachable(ImportsSome, start)

\* Main imports A and B, A imports B, B imports nothing: B is reached twice from
\* Main and no cycle is reported
C21_Witness ==
    /\ Len(modules) = 3
    /\ \A k \in 1..3 : modules[k].v.name = getModuleName(modules[k].k)
    /\ getModuleByUri("Main.ahk").imports = ImportsOf(<<"A", "B">>).imports
    /\ getModuleByUri("A.ahk").imports = ImportsOf(<<"B">>).imports
    /\ getModuleByUri("B.ahk").imports = <<>>
    /\ detectCircularDependencies("Main") = <<>>

\* C22: every cycle detectCircularDependencies returns has at least two elements,
\* begins and ends with the same module, repeats no other module, and each of its
\* elements has an indexed record with an import declaration targeting the next.
C22_CyclesAreLoops ==
    \A start \in GraphModules :
        LET cycles == detectCircularDependencies(start)
        IN  \A c \in 1..Len(cycles) :
                LET cycle == cycles[c]
                IN  /\ Len(cycle) >= 2
                    /\ cycle[1] = cycle[Len(cycle)]
                    /\ \A i, j \in 1..(Len(cycle) - 1) : i # j => cycle[i] # cycle[j]
                    /\ \A i \in 1..(Len(cycle) - 1) : ImportsSome(cycle[i], cycle[i + 1])

\* detection from A walks into the loop B -> Main -> B, which does not hold A
C22_Witness ==
    detectCircularDependencies("A") = << <<"B", "Main", "B">> >>

\* C30: detectCircularDependencies never returns the same cycle twice in one result,
\* also where a module has several import declarations targeting one module.
C30_NoCycleTwice ==
    \A start \in GraphModules :
        LET cycles == detectCircularDependencies(start)
        IN  \A i, j \in 1..Len(cycles) : i # j => cycles[i] # cycles[j]

----------------------------------------------------------------------------
(* Wildcard imports of Main.ahk from the two library files *)

\* wildcard imports of B, A and A again, with a named import in between
DocWildBAA ==
    Doc(NoDirective, <<>>,
        <<Import("B", TRUE, "wildcard"), Import("A", TRUE, "wildcard"),
          Import("B", FALSE, "named"), Import("A", TRUE, "wildcard")>>)

ExportingDocs == {DocSumAvg, DocNamedB}

ImportingDocs == {DocEmpty, DocWildBAA, Unreadable}

NextWildcard ==
    \/ \E uri \in LibraryFiles, doc \in ExportingDocs :
          IndexFile(uri, doc) /\ UNCHANGED asyncVars
    \/ \E doc \in ImportingDocs : IndexFile("Main.ahk", doc) /\ UNCHANGED asyncVars
    \/ \E uri \in Files : RemoveFile(uri) /\ UNCHANGED asyncVars

SpecWildcard == Init /\ [][NextWildcard]_vars

\* C16: for an indexed document D, getWildcardImportedSymbols(D) is the
\* concatenation of getModuleExports(m) over the modules m that D's wildcard import
\* declarations name, in declaration order and with repetitions kept; it is empty
\* when D declares no wildcard import.
C16_WildcardSymbolsConcatenate ==
    \A D \in Files :
        MapHas(modules, D) =>
            LET declared == WildcardModules(getModuleByUri(D).imports)
            IN  /\ getWildcardImportedSymbols(D) = ConcatExports(declared)
                /\ declared = <<>> => getWildcardImportedSymbols(D) = <<>>

\* Main.ahk imports B once and A twice by wildcard, B exports Sum and A exports Sum
\* and Avg: five symbols, those of A twice and Sum under both modules
C16_Witness ==
    /\ MapHas(modules, "Main.ahk")
    /\ getModuleByUri("Main.ahk").imports = DocWildBAA.imports
    /\ LET symbols == getWildcardImportedSymbols("Main.ahk")
       IN  /\ Len(symbols) = 5
           /\ symbols[1].name = "Sum" /\ symbols[2].name = "Sum"
           /\ symbols[2] = symbols[4] /\ symbols[3] = symbols[5]

\* C17: getWildcardImportSourceModule(D, n) is undefined exactly when
\* isSymbolFromWildcardImport(D, n) is false, and for an indexed D it is the first
\* module, in the order of D's wildcard import declarations, whose exports
\* contain n.
C17_SourceIsFirstExporter ==
    \A D \in Files, n \in SymbolNames :
        LET source == getWildcardImportSourceModule(D, n)
            Exports(m) == \E k \in 1..Len(getModuleExports(m)) :
                              getModuleExports(m)[k].name = n
        IN  /\ (source = NoSource) <=> ~isSymbolFromWildcardImport(D, n)
            /\ MapHas(modules, D) =>
                  LET declared == WildcardModules(getModuleByUri(D).imports)
                  IN  IF \E i \in 1..Len(declared) : Exports(declared[i])
                      THEN \E i \in 1..Len(declared) :
                               /\ source = <<declared[i]>>
                               /\ Exports(declared[i])
                               /\ \A j \in 1..(i - 1) : ~Exports(declared[j])
                      ELSE source = NoSource

\* Main.ahk imports B before A, both export Sum, and B is the source of Sum while
\* A is the source of Avg
C17_Witness ==
    /\ MapHas(modules, "Main.ahk")
    /\ getModuleByUri("Main.ahk").imports = DocWildBAA.imports
    /\ isSymbolExportedBy("Sum", "A") /\ isSymbolExportedBy("Sum", "B")
    /\ getWildcardImportSourceModule("Main.ahk", "Sum") = <<"B">>
    /\ getWildcardImportSourceModule("Main.ahk", "Avg") = <<"A">>

----------------------------------------------------------------------------
(* getUnusedImports: a document is its text, a sequence of characters, and the
   import statements the parser yields for it *)

Chars(str) == [i \in 1..Len(str) |-> SubSeq(str, i, i)]

NewLine == "\n"

\* \b before the p-th character of text (after the last one when p = Len + 1)
WordBoundary(text, p) ==
    (p > 1 /\ text[p - 1] \in WordChars) # (p <= Len(text) /\ text[p] \in WordChars)

LiteralAt(text, literal, p) ==
    /\ p + Len(literal) - 1 <= Len(text)
    /\ SubSeq(text, p, p + Len(literal) - 1) = literal

\* text.match(new RegExp(`\\b${symbolName}\\b`, 'g')): the number of matches
\* found from position p on, 0 standing for null
RECURSIVE SymbolMatches(_, _, _)
SymbolMatches(text, symbolName, p) ==
    IF p > Len(text) THEN 0
    ELSE IF /\ WordBoundary(text, p)
            /\ LiteralAt(text, symbolName, p)
            /\ WordBoundary(text, p + Len(symbolName))
         THEN 1 + SymbolMatches(text, symbolName, p + Len(symbolName))
         ELSE SymbolMatches(text, symbolName, p + 1)

\* new RegExp(`\\b${moduleName}\\.`, 'g').test(text)
ModuleNameTest(text, moduleName) ==
    \E p \in 1..Len(text) :
        WordBoundary(text, p) /\ LiteralAt(text, moduleName \o <<".">>, p)

NoAlias == <<>>

ImportedSymbol(name, alias) == [name |-> Chars(name), alias |-> alias]

ImportStatement(moduleName, isWildcard, type, symbols) ==
    [moduleName |-> Chars(moduleName), isWildcard |-> isWildcard, type |-> type,
     symbols |-> symbols]

\* the name a symbol is looked for under, the alias left out
NameOnly(symbol) == symbol.name

\* symbol.alias || symbol.name
AliasOrName(symbol) == IF symbol.alias # NoAlias THEN symbol.alias ELSE symbol.name

\* IsUnusedImport that tests a wildcard import the way it tests a default import
IsUnusedImportWildcardToo(text, importStmt) ==
    IF importStmt.isWildcard \/ importStmt.type = "default"
    THEN ~ModuleNameTest(text, importStmt.moduleName)
    ELSE IF importStmt.type = "named"
         THEN \A k \in 1..Len(importStmt.symbols) :
                  ~(SymbolMatches(text, AliasOrName(importStmt.symbols[k]), 1) > 1)
    ELSE FALSE

\* the test of one import statement in the loop of getUnusedImports
IsUnusedImport(text, importStmt) ==
    IF importStmt.isWildcard THEN FALSE
    ELSE IF importStmt.type = "default"
         THEN ~ModuleNameTest(text, importStmt.moduleName)
    ELSE IF importStmt.type = "named"
         THEN \A k \in 1..Len(importStmt.symbols) :
                  ~(SymbolMatches(text, AliasOrName(importStmt.symbols[k]), 1) > 1)
    ELSE FALSE

getUnusedImports(document) ==
    SelectSeq(document.imports, LAMBDA importStmt : IsUnusedImport(document.text, importStmt))

TextDocument(lines, imports) ==
    LET RECURSIVE Join(_)
        Join(i) == IF i > Len(lines) THEN <<>>
                   ELSE Chars(lines[i]) \o <<NewLine>> \o Join(i + 1)
    IN  [text |-> Join(1), imports |-> imports]

\* the import lines of the documents, with what the parser yields for them
Headers ==
    { TextDocument(<<"import {Sum} from M">>,
          <<ImportStatement("M", FALSE, "named", <<ImportedSymbol("Sum", NoAlias)>>)>>),
      TextDocument(<<"import {Sum as S} from M">>,
          <<ImportStatement("M", FALSE, "named", <<ImportedSymbol("Sum", Chars("S"))>>)>>),
      TextDocument(<<"import {Sum, Avg} from M">>,
          <<ImportStatement("M", FALSE, "named",
                <<ImportedSymbol("Sum", NoAlias), ImportedSymbol("Avg", NoAlias)>>)>>),
      TextDocument(<<"import M">>,
          <<ImportStatement("M", FALSE, "default", <<>>)>>),
      TextDocument(<<"import * from M", "import {Avg} from M">>,
          <<ImportStatement("M", TRUE, "wildcard", <<>>),
            ImportStatement("M", FALSE, "named", <<ImportedSymbol("Avg", NoAlias)>>)>>),
      TextDocument(<<"import {Sum} from Sum">>,
          <<ImportStatement("Sum", FALSE, "named", <<ImportedSymbol("Sum", NoAlias)>>)>>) }

\* what the text after the import lines is made of
Pieces ==
    {Chars("Sum"), Chars("Avg"), Chars("S"), Chars("s"), Chars("M"), Chars("."), Chars(" ")}

Bodies == UNION {[1..n -> Pieces] : n \in 0..MaxBody}

RECURSIVE Flatten(_)
Flatten(pieces) ==
    IF pieces = <<>> THEN <<>> ELSE Head(pieces) \o Flatten(Tail(pieces))

Documents ==
    {[text |-> header.text \o Flatten(body), imports |-> header.imports] :
        header \in Headers, body \in Bodies}

\* getUnusedImports(document) on the document that was opened
GetUnusedImports ==
    /\ last.op = "openTextDocument"
    /\ last' = [op |-> "getUnusedImports", uri |-> last.uri, arg |-> last.arg,
                result |-> getUnusedImports(last.arg)]
    /\ UNCHANGED <<indexVars, diagnostics, asyncVars>>

InitUnused ==
    /\ \E document \in Documents : last = Call("openTextDocument", "Main.ahk", document)
    /\ modules = EmptyMap
    /\ symbolsByModule = EmptyMap
    /\ symbolsByName = [n \in SymbolNames |-> <<>>]
    /\ wildcardImportsByDocument = [f \in Files |-> <<>>]
    /\ indexingInProgress = FALSE
    /\ diagnostics = EmptyMap
    /\ pending = <<>>
    /\ workspaceCall = "idle"
    /\ delivered = [f \in Files |-> 0]
    /\ recordAsOf = [f \in Files |-> 0]
    /\ deleted = [f \in Files |-> FALSE]

NextUnused == GetUnusedImports

SpecUnused == InitUnused /\ [][NextUnused]_vars

\* the words of a text: its maximal runs of word characters, in order
RECURSIVE WordsFrom(_, _, _)
WordsFrom(text, p, word) ==
    IF p > Len(text) THEN (IF word = <<>> THEN <<>> ELSE <<word>>)
    ELSE IF text[p] \in WordChars THEN WordsFrom(text, p + 1, Append(word, text[p]))
    ELSE (IF word = <<>> THEN <<>> ELSE <<word>>) \o WordsFrom(text, p + 1, <<>>)

Occurrences(text, name) ==
    LET words == WordsFrom(text, 1, <<>>)
    IN  Cardinality({i \in 1..Len(words) : words[i] = name})

Reported(result, importStmt) == \E i \in 1..Len(result) : result[i] = importStmt

\* C18: getUnusedImports reports a named import each of whose symbols occurs, under
\* its alias when it has one and under its name otherwise, exactly once in the
\* document's text, and does not report a named import one of whose symbols occurs
\* a second time anywhere in the text.
C18_UnusedNamedImport ==
    last.op = "getUnusedImports" =>
        \A i \in 1..Len(last.arg.imports) :
            LET importStmt == last.arg.imports[i]
                Times(k) ==
                    LET symbol == importStmt.symbols[k]
                    IN  Occurrences(last.arg.text,
                            IF symbol.alias # NoAlias THEN symbol.alias ELSE symbol.name)
            IN  (importStmt.type = "named" /\ ~importStmt.isWildcard) =>
                    /\ (\A k \in 1..Len(importStmt.symbols) : Times(k) = 1)
                           => Reported(last.result, importStmt)
                    /\ (\E k \in 1..Len(importStmt.symbols) : Times(k) >= 2)
                           => ~Reported(last.result, importStmt)

\* Sum is imported as S: a document that goes on to use S has the import kept,
\* although the name Sum occurs only in the import line
C18_Witness ==
    /\ last.op = "getUnusedImports"
    /\ Len(last.arg.imports) = 1
    /\ last.arg.imports[1].symbols # <<>>
    /\ last.arg.imports[1].symbols[1].alias = Chars("S")
    /\ Occurrences(last.arg.text, Chars("S")) = 2
    /\ Occurrences(last.arg.text, Chars("Sum")) = 1
    /\ last.result = <<>>

\* C23: getUnusedImports never reports a wildcard import, whatever the text of the
\* document is, also when the text refers to nothing of the imported module.
C23_WildcardNeverReported ==
    last.op = "getUnusedImports" =>
        \A i \in 1..Len(last.arg.imports) :
            last.arg.imports[i].isWildcard => ~Reported(last.result, last.arg.imports[i])

\* the text is two import lines and nothing else: the named import of Avg is
\* reported, the wildcard import of the same module is not
C23_Witness ==
    /\ last.op = "getUnusedImports"
    /\ Len(last.arg.imports) = 2
    /\ last.arg.imports[1].isWildcard
    /\ ~ModuleNameTest(last.arg.text, Chars("M"))
    /\ last.result = <<last.arg.imports[2]>>

----------------------------------------------------------------------------
(* The runtime-source adapter on raw diagnostics with arbitrary positions *)

RawCoordinates == (0 - MaxCoordinate)..MaxCoordinate

RawAt(line, column, endLine, endColumn) ==
    AlphaDiagnostic("Main.ahk", line, column, endLine, endColumn,
                    "Call to undefined function", "error", NoExtra)

NextClamp ==
    \E line \in RawCoordinates, column \in RawCoordinates,
       endLine \in RawCoordinates, endColumn \in RawCoordinates :
        /\ SetAlphaDiagnostics("Main.ahk", <<RawAt(line, column, endLine, endColumn)>>)
        /\ UNCHANGED asyncVars

SpecClamp == Init /\ [][NextClamp]_vars

\* C24: setAlphaDiagnostics stores every raw diagnostic whatever its range is, and
\* each of the four stored coordinates is max(0, raw - 1): a raw line or column,
\* start or end, that is zero or negative is stored as 0.
C24_RangeClamped ==
    last.op = "setAlphaDiagnostics" =>
        LET raw == last.arg[1]
            stored == getDiagnosticsFromSource(last.uri, "alpha")
            Clamped(n) == IF n - 1 > 0 THEN n - 1 ELSE 0
        IN  /\ Len(stored) = 1
            /\ stored[1].range.start.line = Clamped(raw.line)
            /\ stored[1].range.start.character = Clamped(raw.column)
            /\ stored[1].range.end.line = Clamped(raw.endLine)
            /\ stored[1].range.end.character = Clamped(raw.endColumn)

----------------------------------------------------------------------------
(* Agreement of the maps of the symbol index, checked under Spec *)

\* the export declarations of name n in the records now indexed, as
\* (file, position) pairs
ExportDeclarations(n) ==
    UNION {{<<modules[k].k, i>> : i \in {j \in 1..Len(modules[k].v.exports) :
                                            modules[k].v.exports[j].symbolName = n}} :
           k \in 1..Len(modules)}

\* C25: for every name n the module names owning the entries of getSymbolsByName(n)
\* are those findModuleExportingSymbol(n) returns, and getSymbolsByName(n) holds
\* exactly one entry per export declaration of n in an indexed module record.
C25_SymbolMapsAgree ==
    \A n \in SymbolNames :
        LET byName == getSymbolsByName(n)
            exporting == findModuleExportingSymbol(n)
        IN  /\ {byName[i].moduleName : i \in 1..Len(byName)}
                  = {exporting[i] : i \in 1..Len(exporting)}
            /\ Len(byName) = Cardinality(ExportDeclarations(n))
            /\ \A d \in ExportDeclarations(n) :
                  \E i \in 1..Len(byName) :
                      /\ byName[i].moduleUri = d[1]
                      /\ byName[i].location.range = getModuleByUri(d[1]).exports[d[2]].range

\* C27: the exports of every indexed module record are among what getModuleExports
\* returns for the record's name, also when another file bears the same name and
\* is indexed or removed.
C27_SharedNameKeepsExports ==
    \A f \in Files :
        MapHas(modules, f) =>
            LET m == getModuleByUri(f)
                exports == getModuleExports(m.name)
            IN  \A i \in 1..Len(m.exports) :
                    \E k \in 1..Len(exports) : exports[k] = SymbolOf(m, m.exports[i])

\* C28: getModuleExports(N) returns a symbol located in file F only while F has a
\* record and that record bears the name N: none under a name F has given up, none
\* after removeFile(F).
C28_NoExportsUnderAbandonedName ==
    \A N \in MapKeys(symbolsByModule) :
        LET exports == getModuleExports(N)
        IN  \A k \in 1..Len(exports) :
                /\ MapHas(modules, exports[k].moduleUri)
                /\ getModuleByUri(exports[k].moduleUri).name = N

\* C29: whenever a call of indexWorkspace has ended, by resolving or by rejecting
\* because findFiles failed, indexingInProgress is false again, so that the next
\* call clears and rebuilds the index.
C29_GuardReleased ==
    (workspaceCall = "idle" /\ last.op = "indexWorkspace" /\ last.arg \in {"resolved", "rejected"})
        => ~indexingInProgress

====
